---- MODULE Spec2Model ----
(***************************************************************************)
(* Model of the Reel audit-log service (reel-be): the log entry store,     *)
(* the filter builder (ReelService._apply_filters), the query service      *)
(* (get, list, get_stats, export, cleanup_old_entries, log) and the CSV    *)
(* and JSON export encoders.                                               *)
(*                                                                         *)
(* Encoding of Python values:                                              *)
(*   str            a sequence of one-character strings, <<"a", ".", "*">> *)
(*   Optional[str]  a str, or NoneStr                                      *)
(*   UUID           a string naming it ("t1", "a1"); Optional: NoneUUID    *)
(*   entry id       a natural number (uuid4 drawn fresh at every insert)   *)
(*   datetime       a whole number of days; Optional: NoneTime             *)
(*   LogSeverity    its value ("DEBUG", ...); Optional: NoneSev            *)
(*   dict           a sequence of <<key, value>> pairs; Optional: NoneData *)
(***************************************************************************)
EXTENDS Integers, Sequences, FiniteSets, TLC

VARIABLES
    store,          \* table reel_log_entries: the set of persisted rows
    now,            \* the clock, datetime.now(timezone.utc), in days
    next_id,        \* the next fresh primary key (uuid4)
    reel_config,    \* config.py: the settings object reel_config
    reader,         \* the read request in flight (get, list, get_stats, export)
    result,         \* what the log or read request completed by this step returned or raised
    cleaner,        \* the cleanup_old_entries calls in flight, one per caller
    cleaned,        \* what the cleanup_old_entries completed by this step returned
    logger,         \* the log call in flight, between its commit and its refresh
    probe           \* input and output of the pure functions under check

vars == <<store, now, next_id, reel_config, reader, result, cleaner, cleaned, logger, probe>>

-----------------------------------------------------------------------------
(* Python values *)

NoneStr  == <<"<None>">>
NoneUUID == "None"
NoneTime == -1
NoneSev  == "None"
NoneData == << <<"<None>">> >>

\* str literals used by the model, spelled character by character
S_users_login  == <<"u","s","e","r","s",".","l","o","g","i","n">>
S_users_logout == <<"u","s","e","r","s",".","l","o","g","o","u","t">>
S_user_login   == <<"u","s","e","r",".","l","o","g","i","n">>
S_users        == <<"u","s","e","r","s">>
S_users_star   == <<"u","s","e","r","s",".","*">>
S_usersXlogin  == <<"u","s","e","r","s","X","l","o","g","i","n">>
S_a_b_x        == <<"a","_","b",".","x">>
S_aZb_x        == <<"a","Z","b",".","x">>
S_a_b_star     == <<"a","_","b",".","*">>
S_star         == <<"*">>
S_dot_star     == <<".","*">>
S_empty        == <<>>
S_guardian     == <<"g","u","a","r","d","i","a","n">>
S_mentor       == <<"m","e","n","t","o","r">>
S_user         == <<"u","s","e","r">>
S_x            == <<"x">>

\* bool(v) of an Optional[str]: None and "" are falsy
TruthyStr(v) == v # NoneStr /\ v # <<>>

\* bool(v) of an Optional[UUID], Optional[datetime], Optional[LogSeverity]:
\* every UUID, datetime and LogSeverity member is truthy
TruthyUUID(v) == v # NoneUUID
TruthyTime(v) == v # NoneTime
TruthySev(v)  == v # NoneSev

\* bool(v) of an Optional[dict]: None and {} are falsy
TruthyData(v) == v # NoneData /\ v # <<>>

Min(a, b) == IF a < b THEN a ELSE b
Max(a, b) == IF a > b THEN a ELSE b

-----------------------------------------------------------------------------
(* models/log_entry.py *)

LogSeverity == {"DEBUG", "INFO", "WARNING", "ERROR", "CRITICAL"}

-----------------------------------------------------------------------------
(* ReelService._apply_filters: the list of conditions it appends, in order *)

\* the dict severity_order, in insertion order
severity_order ==
    << <<"DEBUG", 0>>, <<"INFO", 1>>, <<"WARNING", 2>>, <<"ERROR", 3>>, <<"CRITICAL", 4>> >>

\* severity_order.get(sev, 0)
SeverityLevel(sev) ==
    IF \E i \in 1..Len(severity_order) : severity_order[i][1] = sev
    THEN severity_order[CHOOSE i \in 1..Len(severity_order) : severity_order[i][1] = sev][2]
    ELSE 0

\* the comprehension with a strict comparison
SeverityAbove(min_level) ==
    {severity_order[i][1] : i \in {j \in 1..Len(severity_order) : severity_order[j][2] > min_level}}

\* [sev for sev, level in severity_order.items() if level >= min_level]
SeverityAtLeast(min_level) ==
    {severity_order[i][1] : i \in {j \in 1..Len(severity_order) : severity_order[j][2] >= min_level}}

\* str.endswith(".*")
EndsWithDotStar(s) == Len(s) >= 2 /\ s[Len(s) - 1] = "." /\ s[Len(s)] = "*"

\* the condition appended for filter.action
ActionCondition(a) ==
    IF EndsWithDotStar(a)
    THEN [op |-> "like", col |-> "action", val |-> SubSeq(a, 1, Len(a) - 1) \o <<"%">>]
    ELSE [op |-> "eq", col |-> "action", val |-> a]

\* one optional condition: the list it contributes
Opt(present, cond) == IF present THEN <<cond>> ELSE <<>>

\* LogEntry.data.astext is defined by SQLAlchemy only on an indexed JSON
\* expression (data["key"].astext); on the column itself the attribute
\* lookup raises AttributeError, so a truthy filter.search makes
\* _apply_filters raise before any query is executed.
FilterRaises(f) == TruthyStr(f.search)

Conditions(f) ==
    Opt(TruthyTime(f.start_date), [op |-> "ge", col |-> "created_at", val |-> f.start_date])
    \o Opt(TruthyTime(f.end_date), [op |-> "le", col |-> "created_at", val |-> f.end_date])
    \o Opt(TruthyUUID(f.actor_id), [op |-> "eq", col |-> "actor_id", val |-> f.actor_id])
    \o Opt(TruthyStr(f.module), [op |-> "eq", col |-> "module", val |-> f.module])
    \o Opt(TruthyStr(f.action), ActionCondition(f.action))
    \o Opt(TruthySev(f.severity), [op |-> "eq", col |-> "severity", val |-> f.severity])
    \o Opt(TruthySev(f.min_severity),
           [op |-> "in", col |-> "severity",
            val |-> SeverityAtLeast(SeverityLevel(f.min_severity))])
    \o Opt(TruthyStr(f.resource_type),
           [op |-> "eq", col |-> "resource_type", val |-> f.resource_type])
    \o Opt(TruthyUUID(f.resource_id),
           [op |-> "eq", col |-> "resource_id", val |-> f.resource_id])
    \o Opt(TruthyUUID(f.client_id), [op |-> "eq", col |-> "client_id", val |-> f.client_id])

\* the value SQL treats as NULL in each nullable column
NullOf(col) ==
    CASE col \in {"actor_id", "client_id", "resource_id"} -> NoneUUID
      [] col \in {"resource_type", "actor_email", "actor_name", "ip_address", "user_agent"}
           -> NoneStr
      [] col = "data" -> NoneData
      [] col = "created_at" -> NoneTime
      [] col = "severity" -> NoneSev
      [] OTHER -> NoneStr

\* PostgreSQL LIKE: % matches any run of characters, _ any one character,
\* backslash takes the next pattern character literally; case-sensitive
RECURSIVE LikeMatch(_, _)
LikeMatch(s, p) ==
    IF p = <<>> THEN s = <<>>
    ELSE IF Head(p) = "%"
         THEN LikeMatch(s, Tail(p)) \/ (s # <<>> /\ LikeMatch(Tail(s), p))
    ELSE IF Head(p) = "_"
         THEN s # <<>> /\ LikeMatch(Tail(s), Tail(p))
    ELSE IF Head(p) = "\\" /\ Len(p) >= 2
         THEN s # <<>> /\ Head(s) = p[2] /\ LikeMatch(Tail(s), Tail(Tail(p)))
    ELSE s # <<>> /\ Head(s) = Head(p) /\ LikeMatch(Tail(s), Tail(p))

\* SQL value of one condition on one row: "TRUE", "FALSE" or "NULL"
Bool3(b) == IF b THEN "TRUE" ELSE "FALSE"

EvalCondition(c, row) ==
    IF row[c.col] = NullOf(c.col) THEN "NULL"
    ELSE CASE c.op = "ge"   -> Bool3(row[c.col] >= c.val)
           [] c.op = "le"   -> Bool3(row[c.col] <= c.val)
           [] c.op = "eq"   -> Bool3(row[c.col] = c.val)
           [] c.op = "like" -> Bool3(LikeMatch(row[c.col], c.val))
           [] c.op = "in"   -> Bool3(row[c.col] \in c.val)

\* query.where(and_(*conditions)): the row passes iff the conjunction is TRUE
Passes(conds, row) ==
    \A i \in 1..Len(conds) : EvalCondition(conds[i], row) = "TRUE"

\* _apply_filters(query, filter) on one row: "raise" when building the
\* conditions raises, else whether the row satisfies the added WHERE clause
ApplyFilters(f, row) ==
    IF FilterRaises(f) THEN "raise"
    ELSE IF Passes(Conditions(f), row) THEN "selected" ELSE "rejected"

-----------------------------------------------------------------------------
(* schemas/log.py: LogFilter, and the rows and filters the checks draw from *)

\* LogFilter(): every field defaults to None
NoFilter ==
    [start_date |-> NoneTime, end_date |-> NoneTime, actor_id |-> NoneUUID,
     module |-> NoneStr, action |-> NoneStr, severity |-> NoneSev,
     min_severity |-> NoneSev, resource_type |-> NoneStr, resource_id |-> NoneUUID,
     client_id |-> NoneUUID, search |-> NoneStr]

FilterFields == DOMAIN NoFilter

\* a filter with every field but search given, and a row that satisfies it
FullFilter ==
    [start_date |-> 2, end_date |-> 4, actor_id |-> "a1",
     module |-> S_guardian, action |-> S_users_star, severity |-> "ERROR",
     min_severity |-> "WARNING", resource_type |-> S_user, resource_id |-> "r1",
     client_id |-> "c1", search |-> S_x]

BaseRow ==
    [id |-> 1, tenant_id |-> "t1", created_at |-> 3,
     module |-> S_guardian, action |-> S_users_login, severity |-> "ERROR",
     actor_id |-> "a1", actor_email |-> NoneStr, actor_name |-> NoneStr,
     client_id |-> "c1", resource_type |-> S_user, resource_id |-> "r1",
     data |-> << << <<"k">>, <<"x">> >> >>, ip_address |-> NoneStr,
     user_agent |-> NoneStr, request_id |-> NoneUUID]

\* other values of the filtered columns (NULL where the column is nullable)
AltValues(col) ==
    CASE col = "created_at"    -> {1, 2, 4, 5}
      [] col = "actor_id"      -> {"a2", NoneUUID}
      [] col = "module"        -> {S_mentor}
      [] col = "action"        -> {S_users_logout, S_user_login, S_users, S_usersXlogin,
                                   S_a_b_x, S_aZb_x}
      [] col = "severity"      -> {"DEBUG", "INFO", "WARNING", "CRITICAL"}
      [] col = "resource_type" -> {S_x, NoneStr}
      [] col = "resource_id"   -> {"r2", NoneUUID}
      [] col = "client_id"     -> {"c2", NoneUUID}
      [] col = "data"          -> {NoneData}

FilteredColumns ==
    {"created_at", "actor_id", "module", "action", "severity", "resource_type",
     "resource_id", "client_id", "data"}

\* the rows that differ from BaseRow in at most MaxChanged columns
MaxChanged == 2

RECURSIVE RowsChanged(_, _)
RowsChanged(rows, n) ==
    IF n = 0 THEN rows
    ELSE RowsChanged(
            rows \cup UNION {{[rc[1] EXCEPT ![rc[2]] = v] : v \in AltValues(rc[2])} :
                                rc \in rows \X FilteredColumns},
            n - 1)

ProbeRows == RowsChanged({BaseRow}, MaxChanged)

\* FullFilter with only the fields of `given` kept
Restrict(given) ==
    [fld \in FilterFields |-> IF fld \in given THEN FullFilter[fld] ELSE NoFilter[fld]]

\* the filters that give at most MaxGiven fields, or all fields but at most one
MaxGiven == 2

ProbeFilters ==
    {Restrict(g) : g \in {h \in SUBSET FilterFields :
                              Cardinality(h) <= MaxGiven \/
                              Cardinality(h) >= Cardinality(FilterFields) - 1}}
    \cup {[NoFilter EXCEPT !.min_severity = sev] : sev \in LogSeverity}
    \cup {[NoFilter EXCEPT !.action = a] :
             a \in {S_users_login, S_users, S_users_star, S_a_b_star,
                    S_dot_star, S_star, S_empty}}
    \cup {[NoFilter EXCEPT !.module = S_empty], [NoFilter EXCEPT !.resource_type = S_empty],
          [NoFilter EXCEPT !.search = S_empty]}

-----------------------------------------------------------------------------
(* SpecFilter: _apply_filters applied to one row under one filter *)

Idle == [op |-> "idle"]

\* the callers of cleanup_old_entries that may run at the same time, each
\* with its own session
Cleaners == {1, 2}

NoCleanup == [c \in Cleaners |-> Idle]

\* ReelConfig, with the limits scaled down to the size of the stores explored
DefaultConfig == [max_page_size |-> 2, max_export_records |-> 2, retention_days |-> 0]

InitFilter ==
    /\ store = {} /\ now = 0 /\ next_id = 1 /\ reel_config = DefaultConfig
    /\ reader = Idle /\ result = Idle /\ cleaner = NoCleanup /\ cleaned = Idle
    /\ logger = Idle
    /\ probe \in {[stage |-> "input", row |-> r, filter |-> f, out |-> "none"] :
                     r \in ProbeRows, f \in ProbeFilters}

ApplyFiltersCall ==
    /\ probe.stage = "input"
    /\ probe' = [probe EXCEPT !.stage = "done",
                               !.out = ApplyFilters(probe.filter, probe.row)]
    /\ UNCHANGED <<store, now, next_id, reel_config, reader, result, cleaner, cleaned, logger>>

NextFilter == ApplyFiltersCall

SpecFilter == InitFilter /\ [][NextFilter]_vars

-----------------------------------------------------------------------------
(* json.dumps of a dict of str to str, with the default separators and    *)
(* ensure_ascii. The characters of the model are the printable ASCII       *)
(* characters, the control characters below and one non-ASCII letter.      *)

\* the escape json.dumps writes for one character of a str
JsonEscapeChar(c) ==
    CASE c = "\""  -> <<"\\", "\"">>
      [] c = "\\"  -> <<"\\", "\\">>
      [] c = "\n"  -> <<"\\", "n">>
      [] c = "\r"  -> <<"\\", "r">>
      [] c = "\t"  -> <<"\\", "t">>
      [] c = "\f"  -> <<"\\", "f">>
      [] c = "é"   -> <<"\\", "u", "0", "0", "e", "9">>
      [] OTHER     -> <<c>>

RECURSIVE JsonEscape(_)
JsonEscape(s) == IF s = <<>> THEN <<>> ELSE JsonEscapeChar(Head(s)) \o JsonEscape(Tail(s))

Quoted(s) == <<"\"">> \o JsonEscape(s) \o <<"\"">>

RECURSIVE JsonPairs(_)
JsonPairs(d) ==
    IF d = <<>> THEN <<>>
    ELSE Quoted(d[1][1]) \o <<":", " ">> \o Quoted(d[1][2])
         \o (IF Len(d) > 1 THEN <<",", " ">> ELSE <<>>) \o JsonPairs(Tail(d))

JsonDumps(d) == IF d = NoneData THEN <<"n","u","l","l">> ELSE <<"{">> \o JsonPairs(d) \o <<"}">>

-----------------------------------------------------------------------------
(* What the specification says a filter selects, stated without the code *)

SeverityScale == <<"DEBUG", "INFO", "WARNING", "ERROR", "CRITICAL">>

SeverityRank(sev) == CHOOSE i \in 1..Len(SeverityScale) : SeverityScale[i] = sev

IsPrefix(p, s) == Len(p) <= Len(s) /\ SubSeq(s, 1, Len(p)) = p

Contains(s, sub) == \E i \in 1..(Len(s) + 1) : IsPrefix(sub, SubSeq(s, i, Len(s)))

LowerChar(c) == CASE c = "X" -> "x" [] c = "Z" -> "z" [] OTHER -> c

Lower(s) == [i \in 1..Len(s) |-> LowerChar(s[i])]

\* the filter gives exactly the fields of `given`
OnlyGiven(f, given) ==
    \A fld \in FilterFields : (f[fld] # NoFilter[fld]) <=> (fld \in given)

\* the condition a given field states about a row
Satisfies(fld, row, f) ==
    CASE fld = "start_date"    -> row.created_at >= f.start_date
      [] fld = "end_date"      -> row.created_at <= f.end_date
      [] fld = "actor_id"      -> row.actor_id = f.actor_id
      [] fld = "module"        -> row.module = f.module
      [] fld = "action"        -> EvalCondition(ActionCondition(f.action), row) = "TRUE"
      [] fld = "severity"      -> row.severity = f.severity
      [] fld = "min_severity"  -> SeverityRank(row.severity) >= SeverityRank(f.min_severity)
      [] fld = "resource_type" -> row.resource_type = f.resource_type
      [] fld = "resource_id"   -> row.resource_id = f.resource_id
      [] fld = "client_id"     -> row.client_id = f.client_id
      [] fld = "search"        -> /\ row.data # NoneData
                                  /\ Contains(Lower(JsonDumps(row.data)), Lower(f.search))

NoEmptyString(f) ==
    \A fld \in {"module", "action", "resource_type", "search"} : f[fld] # <<>>

\* C4: a filter that gives only min_severity = L selects a row iff the row's
\* severity is at or above L in DEBUG < INFO < WARNING < ERROR < CRITICAL, and
\* no filter that gives min_severity = L selects a row below L.
C4_MinSeverity ==
    (probe.stage = "done" /\ probe.filter.min_severity # NoneSev) =>
        /\ OnlyGiven(probe.filter, {"min_severity"}) =>
              (probe.out = "selected" <=>
                 SeverityRank(probe.row.severity) >= SeverityRank(probe.filter.min_severity))
        /\ probe.out = "selected" =>
              SeverityRank(probe.row.severity) >= SeverityRank(probe.filter.min_severity)

C4_Witness ==
    /\ probe.stage = "done"
    /\ OnlyGiven(probe.filter, {"min_severity"})
    /\ probe.filter.min_severity = "WARNING"
    /\ probe.row.severity = "CRITICAL"
    /\ probe.out = "selected"

\* C5: a filter that gives only a non-empty action selects a row iff, when the
\* filter ends in ".*", the row's action starts with the filter text up to
\* and including the dot, and otherwise the row's action equals the filter.
C5_ActionFilter ==
    (probe.stage = "done" /\ OnlyGiven(probe.filter, {"action"})
        /\ probe.filter.action # <<>>) =>
        (probe.out = "selected" <=>
            IF EndsWithDotStar(probe.filter.action)
            THEN IsPrefix(SubSeq(probe.filter.action, 1, Len(probe.filter.action) - 1),
                          probe.row.action)
            ELSE probe.row.action = probe.filter.action)

\* C6: a row is selected iff it satisfies the condition of every field the
\* filter gives (start_date, end_date, actor_id, module, action, severity,
\* min_severity, resource_type, resource_id, client_id, search); a field that
\* is absent imposes no constraint.
C6_FilterConjunction ==
    (probe.stage = "done" /\ NoEmptyString(probe.filter)) =>
        (probe.out = "selected" <=>
            \A fld \in FilterFields :
                probe.filter[fld] = NoFilter[fld] \/ Satisfies(fld, probe.row, probe.filter))

-----------------------------------------------------------------------------
(* ReelService._export_csv, with csv.DictWriter in its default dialect:     *)
(* delimiter ",", quotechar '"', doublequote, QUOTE_MINIMAL, "\r\n" ends a   *)
(* row. A str is a sequence of characters; a multi-character element such  *)
(* as "t1" or "INFO" stands for a run of characters that are not special.  *)

CR == "\r"
LF == "\n"
DQ == "\""

\* str(uuid), datetime.isoformat(), LogSeverity.value
StrUUID(u) == <<u>>
IsoFormat(t) == <<"day", ToString(t)>>
StrId(i) == <<"id", ToString(i)>>

\* v or ""
OrEmpty(v) == IF TruthyStr(v) THEN v ELSE <<>>

\* str(v) if v else ""
StrUUIDOrEmpty(u) == IF TruthyUUID(u) THEN StrUUID(u) ELSE <<>>

fieldnames ==
    << <<"id">>, <<"created_at">>, <<"module">>, <<"action">>, <<"severity">>,
       <<"actor_id">>, <<"actor_email">>, <<"actor_name">>, <<"tenant_id">>,
       <<"client_id">>, <<"resource_type">>, <<"resource_id">>, <<"ip_address">> >>

\* the dict `row` built for one entry, as the list DictWriter writes
CsvValues(entry, include_data) ==
    << StrId(entry.id), IsoFormat(entry.created_at), entry.module, entry.action,
       <<entry.severity>>, StrUUIDOrEmpty(entry.actor_id), OrEmpty(entry.actor_email),
       OrEmpty(entry.actor_name), StrUUID(entry.tenant_id), StrUUIDOrEmpty(entry.client_id),
       OrEmpty(entry.resource_type), StrUUIDOrEmpty(entry.resource_id),
       OrEmpty(entry.ip_address) >>
    \o (IF include_data
        THEN << IF TruthyData(entry.data) THEN JsonDumps(entry.data) ELSE <<>> >>
        ELSE <<>>)

\* QUOTE_MINIMAL: quote a field that holds the delimiter, the quote
\* character or a character of the line terminator
NeedsQuote(s) == \E i \in 1..Len(s) : s[i] \in {",", DQ, CR, LF}

RECURSIVE DoubleQuotes(_)
DoubleQuotes(s) ==
    IF s = <<>> THEN <<>>
    ELSE (IF Head(s) = DQ THEN <<DQ, DQ>> ELSE <<Head(s)>>) \o DoubleQuotes(Tail(s))

\* a writer that never quotes
CsvFieldUnquoted(s) == s

\* csv.writer, QUOTE_MINIMAL: a field with a special character is quoted
CsvField(s) == IF NeedsQuote(s) THEN <<DQ>> \o DoubleQuotes(s) \o <<DQ>> ELSE s

RECURSIVE CsvJoin(_)
CsvJoin(fields) ==
    IF fields = <<>> THEN <<>>
    ELSE CsvField(Head(fields))
         \o (IF Len(fields) > 1 THEN <<",">> ELSE <<>>) \o CsvJoin(Tail(fields))

\* writer.writerow
CsvRow(fields) == CsvJoin(fields) \o <<CR, LF>>

RECURSIVE CsvRows(_, _)
CsvRows(entries, include_data) ==
    IF entries = <<>> THEN <<>>
    ELSE CsvRow(CsvValues(Head(entries), include_data))
         \o CsvRows(Tail(entries), include_data)

ExportCsv(entries, include_data) ==
    CsvRow(fieldnames \o (IF include_data THEN << <<"data">> >> ELSE <<>>))
    \o CsvRows(entries, include_data)

-----------------------------------------------------------------------------
(* Reading CSV text back (csv.reader, default dialect): the rows and their  *)
(* columns. Used to state what an export holds.                            *)

\* position i lies inside a quoted field: an odd number of quote characters
\* precede it (a quote inside a quoted field is written doubled)
InQuotes(text, i) == Cardinality({j \in 1..(i - 1) : text[j] = DQ}) % 2 = 1

\* the k-th smallest member of a set of positions
Nth(S, k) == CHOOSE i \in S : Cardinality({j \in S : j < i}) = k - 1

\* the positions that end a row: an unquoted "\n", or an unquoted "\r" with no
\* "\n" after it
RowEnds(text) ==
    {i \in 1..Len(text) :
        /\ ~InQuotes(text, i)
        /\ \/ text[i] = LF
           \/ text[i] = CR /\ ~(i < Len(text) /\ text[i + 1] = LF)}

\* a field as read: the enclosing quotes removed, doubled quotes halved
RECURSIVE Undouble(_)
Undouble(s) ==
    IF s = <<>> THEN <<>>
    ELSE IF Len(s) >= 2 /\ s[1] = DQ /\ s[2] = DQ THEN <<DQ>> \o Undouble(Tail(Tail(s)))
    ELSE <<Head(s)>> \o Undouble(Tail(s))

Unquote(s) ==
    IF Len(s) >= 2 /\ s[1] = DQ /\ s[Len(s)] = DQ
    THEN Undouble(SubSeq(s, 2, Len(s) - 1))
    ELSE s

\* the fields of the row text[from..to] (the terminator excluded)
CsvFields(text, from, to) ==
    LET commas == {i \in from..to : text[i] = "," /\ ~InQuotes(text, i)}
        n == Cardinality(commas)
        lo(k) == IF k = 1 THEN from ELSE Nth(commas, k - 1) + 1
        hi(k) == IF k = n + 1 THEN to ELSE Nth(commas, k) - 1
    IN [k \in 1..(n + 1) |-> Unquote(SubSeq(text, lo(k), hi(k)))]

CsvParse(text) ==
    LET ends == RowEnds(text)
        lo(k) == IF k = 1 THEN 1 ELSE Nth(ends, k - 1) + 1
        hi(k) == LET e == Nth(ends, k)
                 IN IF text[e] = LF /\ e > 1 /\ text[e - 1] = CR /\ ~InQuotes(text, e - 1)
                    THEN e - 2 ELSE e - 1
    IN [k \in 1..Cardinality(ends) |-> CsvFields(text, lo(k), hi(k))]

-----------------------------------------------------------------------------
(* SpecCsv: _export_csv applied to a list of entries *)

\* entries whose text fields hold the characters CSV treats specially
CsvEntries ==
    { BaseRow,
      [BaseRow EXCEPT !.id = 2, !.module = <<"a", ",", "b">>, !.actor_id = NoneUUID,
                      !.data = NoneData],
      [BaseRow EXCEPT !.id = 3, !.actor_name = <<"J", LF, "D">>, !.action = <<"x", DQ, "y">>,
                      !.client_id = NoneUUID, !.data = <<>>],
      [BaseRow EXCEPT !.id = 4, !.actor_email = <<"e", "@", "x">>, !.ip_address = <<"1", ".", "2">>,
                      !.resource_type = <<CR, LF>>, !.resource_id = NoneUUID,
                      !.data = << << <<"k">>, <<"x", DQ, "y">> >>,
                                 << <<"a">>, <<"\\", LF, "\t", "é">> >> >>],
      [BaseRow EXCEPT !.id = 5, !.actor_name = <<>>, !.resource_type = NoneStr,
                      !.module = <<DQ, DQ>>] }

\* the longest list of entries encoded
MaxCsvEntries == 2

CsvLists == UNION {[1..n -> CsvEntries] : n \in 0..MaxCsvEntries}

InitCsv ==
    /\ store = {} /\ now = 0 /\ next_id = 1 /\ reel_config = DefaultConfig
    /\ reader = Idle /\ result = Idle /\ cleaner = NoCleanup /\ cleaned = Idle
    /\ logger = Idle
    /\ probe \in {[stage |-> "input", entries |-> es, include_data |-> d, out |-> <<>>] :
                     es \in CsvLists, d \in BOOLEAN}

ExportCsvCall ==
    /\ probe.stage = "input"
    /\ probe' = [probe EXCEPT !.stage = "done",
                               !.out = ExportCsv(probe.entries, probe.include_data)]
    /\ UNCHANGED <<store, now, next_id, reel_config, reader, result, cleaner, cleaned, logger>>

NextCsv == ExportCsvCall

SpecCsv == InitCsv /\ [][NextCsv]_vars

\* C10: the CSV text of N entries reads back as exactly N+1 rows: the header
\* with the 13 fixed columns in order (and "data" as a 14th exactly when
\* include_data is true), then one row per entry in the order received,
\* every row with as many columns as the header.
C10_CsvShape ==
    probe.stage = "done" =>
        LET rows == CsvParse(probe.out)
            ncol == IF probe.include_data THEN 14 ELSE 13
        IN /\ Len(rows) = Len(probe.entries) + 1
           /\ SubSeq(rows[1], 1, 13) =
                 << <<"id">>, <<"created_at">>, <<"module">>, <<"action">>, <<"severity">>,
                    <<"actor_id">>, <<"actor_email">>, <<"actor_name">>, <<"tenant_id">>,
                    <<"client_id">>, <<"resource_type">>, <<"resource_id">>,
                    <<"ip_address">> >>
           /\ probe.include_data => rows[1][14] = <<"data">>
           /\ \A i \in 1..Len(rows) : Len(rows[i]) = ncol
           /\ \A i \in 1..Len(probe.entries) :
                 /\ rows[i + 1][1] = StrId(probe.entries[i].id)
                 /\ rows[i + 1][3] = probe.entries[i].module
                 /\ rows[i + 1][4] = probe.entries[i].action

C10_Witness ==
    /\ probe.stage = "done"
    /\ Len(probe.entries) = 2
    /\ probe.include_data
    /\ probe.entries[1].id = 3 /\ probe.entries[2].id = 2
    /\ Len(CsvParse(probe.out)) = 3
    /\ Len(CsvParse(probe.out)[2]) = 14

-----------------------------------------------------------------------------
(* The queries of ReelService against the table *)

Tenants == {"t1", "t2"}

\* list(filter=None), LogExportRequest(filter=None)
NoneFilter == [none |-> TRUE]

\* `if filter: query = self._apply_filters(query, filter)`: a LogFilter
\* object is truthy whatever its fields
QueryRaises(f) == f # NoneFilter /\ FilterRaises(f)

QueryConditions(f) == IF f = NoneFilter THEN <<>> ELSE Conditions(f)

\* the query without its tenant condition
RowsAnyTenant(S, t, f) == {e \in S : Passes(QueryConditions(f), e)}

\* select(LogEntry).where(LogEntry.tenant_id == tenant_id) with the filter applied
Rows(S, t, f) == {e \in S : e.tenant_id = t /\ Passes(QueryConditions(f), e)}

\* the query without order_by
NewestFirstUnordered(R) ==
    {s \in [1..Cardinality(R) -> R] : \A i, j \in DOMAIN s : i # j => s[i] # s[j]}

\* order_by(LogEntry.created_at.desc()): the orders the database may return
\* the rows in; rows with equal created_at come in any order
NewestFirst(R) ==
    {s \in [1..Cardinality(R) -> R] :
        /\ \A i, j \in DOMAIN s : i # j => s[i] # s[j]
        /\ \A i, j \in DOMAIN s : i < j => s[i].created_at >= s[j].created_at}

\* .offset(offset).limit(limit) of an ordered result, offset >= 0, limit >= 0
OffsetLimit(order, offset, limit) ==
    SubSeq(order, offset + 1, Min(offset + limit, Len(order)))

\* offset = (page - 1) * page_size
PageOffset(page, page_size) == (page - 1) * page_size

\* the page count rounded down
PageCountFloor(total, page_size) == IF total > 0 THEN total \div page_size ELSE 0

\* pages = (total + page_size - 1) // page_size if total > 0 else 0
PageCount(total, page_size) ==
    IF total > 0 THEN (total + page_size - 1) \div page_size ELSE 0

\* page_size = min(page_size, reel_config.max_page_size)
ClampPageSize(page_size, cfg) == Min(page_size, cfg.max_page_size)

\* page = max(page, 1)
ClampPage(page) == Max(page, 1)

\* result.scalar_one_or_none() of the rows a query returns
NoneEntry == [none |-> TRUE]

ScalarOneOrNone(R) ==
    IF R = {} THEN [status |-> "ok", value |-> NoneEntry]
    ELSE IF Cardinality(R) = 1 THEN [status |-> "ok", value |-> CHOOSE e \in R : TRUE]
    ELSE [status |-> "MultipleResultsFound"]

\* the lookup by id alone
GetQueryById(S, log_id, tenant_id) == {e \in S : e.id = log_id}

\* ReelService.get: select(LogEntry).where(and_(id == log_id, tenant_id == tenant_id))
GetQuery(S, log_id, tenant_id) == {e \in S : e.id = log_id /\ e.tenant_id = tenant_id}

-----------------------------------------------------------------------------
(* ReelService._export_json: the document handed to json.dumps *)

JsonItem(entry, include_data) ==
    LET item ==
          [id |-> StrId(entry.id), created_at |-> IsoFormat(entry.created_at),
           module |-> entry.module, action |-> entry.action, severity |-> entry.severity,
           actor_id |-> IF TruthyUUID(entry.actor_id) THEN StrUUID(entry.actor_id) ELSE NoneStr,
           actor_email |-> entry.actor_email, actor_name |-> entry.actor_name,
           tenant_id |-> StrUUID(entry.tenant_id),
           client_id |-> IF TruthyUUID(entry.client_id) THEN StrUUID(entry.client_id)
                         ELSE NoneStr,
           resource_type |-> entry.resource_type,
           resource_id |-> IF TruthyUUID(entry.resource_id) THEN StrUUID(entry.resource_id)
                           ELSE NoneStr,
           ip_address |-> entry.ip_address]
    IN IF include_data
       THEN [k \in DOMAIN item \cup {"data"} |-> IF k = "data" THEN entry.data ELSE item[k]]
       ELSE item

\* the count taken one too high
ExportJsonCountOff(entries, include_data) ==
    LET items == [i \in 1..Len(entries) |-> JsonItem(entries[i], include_data)]
    IN [logs |-> items, count |-> Len(items) + 1]

\* json.dumps({"logs": items, "count": len(items)}): the document dumped
ExportJson(entries, include_data) ==
    LET items == [i \in 1..Len(entries) |-> JsonItem(entries[i], include_data)]
    IN [logs |-> items, count |-> Len(items)]

-----------------------------------------------------------------------------
(* Spec: the service under concurrent requests. A request holds the event   *)
(* loop between two awaits, so each database statement is one step; other  *)
(* requests run between the statements of one request.                     *)

\* the number of entries ever inserted, and the last day of the clock
MaxEntries == 2
MaxTime == 2

\* keyword arguments of log(); severity "unset" takes the default
LogArgs ==
    { [module |-> S_guardian, action |-> S_users_login, severity |-> "unset",
       actor_id |-> "a1", actor_email |-> <<"e", "@", "x">>, actor_name |-> <<"J", ",", "D">>,
       client_id |-> "c1", resource_type |-> S_user, resource_id |-> "r1",
       data |-> << << <<"k">>, <<"x">> >> >>, ip_address |-> <<"1", ".", "2">>,
       user_agent |-> NoneStr, request_id |-> NoneUUID],
      [module |-> S_mentor, action |-> S_users_logout, severity |-> "ERROR",
       actor_id |-> NoneUUID, actor_email |-> NoneStr, actor_name |-> NoneStr,
       client_id |-> NoneUUID, resource_type |-> NoneStr, resource_id |-> NoneUUID,
       data |-> NoneData, ip_address |-> NoneStr,
       user_agent |-> NoneStr, request_id |-> NoneUUID] }

\* an entry that takes DEBUG where no severity is given
NewEntryDebug(id, created_at, tenant_id, a) ==
    [id |-> id, tenant_id |-> tenant_id, created_at |-> created_at,
     module |-> a.module, action |-> a.action,
     severity |-> IF a.severity = "unset" THEN "DEBUG" ELSE a.severity,
     actor_id |-> a.actor_id, actor_email |-> a.actor_email, actor_name |-> a.actor_name,
     client_id |-> a.client_id, resource_type |-> a.resource_type,
     resource_id |-> a.resource_id, data |-> a.data, ip_address |-> a.ip_address,
     user_agent |-> a.user_agent, request_id |-> a.request_id]

\* LogEntry(...), then db.add, db.commit, db.refresh: id from uuid4,
\* created_at from the server default now()
NewEntry(id, created_at, tenant_id, a) ==
    [id |-> id, tenant_id |-> tenant_id, created_at |-> created_at,
     module |-> a.module, action |-> a.action,
     severity |-> IF a.severity = "unset" THEN "INFO" ELSE a.severity,
     actor_id |-> a.actor_id, actor_email |-> a.actor_email, actor_name |-> a.actor_name,
     client_id |-> a.client_id, resource_type |-> a.resource_type,
     resource_id |-> a.resource_id, data |-> a.data, ip_address |-> a.ip_address,
     user_agent |-> a.user_agent, request_id |-> a.request_id]

\* a committed write of n rows, noted for the request in flight
NoteWrite(r, n) ==
    IF r.op = "idle" THEN r ELSE [r EXCEPT !.writes = @ + 1, !.rows = @ + n]

\* a log call that commits nothing
LogNothing(tenant_id, a) ==
    /\ next_id <= MaxEntries
    /\ logger = Idle
    /\ store' = store
    /\ next_id' = next_id + 1
    /\ logger' = [op |-> "log", tenant_id |-> tenant_id, args |-> a,
                  entry |-> NewEntry(next_id, now, tenant_id, a)]
    /\ result' = Idle /\ cleaned' = Idle
    /\ UNCHANGED <<now, reel_config, reader, cleaner, probe>>

\* ReelService.log up to the end of its commit: the entry is built, added
\* and committed; from here on other requests see the row
Log(tenant_id, a) ==
    /\ next_id <= MaxEntries
    /\ logger = Idle
    /\ store' = store \cup {NewEntry(next_id, now, tenant_id, a)}
    /\ next_id' = next_id + 1
    /\ reader' = NoteWrite(reader, 1)
    /\ logger' = [op |-> "log", tenant_id |-> tenant_id, args |-> a,
                  entry |-> NewEntry(next_id, now, tenant_id, a)]
    /\ result' = Idle /\ cleaned' = Idle
    /\ UNCHANGED <<now, reel_config, cleaner, probe>>

\* db.refresh(entry): the row is read back by its primary key
RefreshQuery(S, entry) == {e \in S : e.id = entry.id}

\* ReelService.log from its refresh on: the row is read back and returned;
\* the refresh of a row that is no longer there raises
LogRefresh ==
    /\ logger.op = "log"
    /\ LET rows == RefreshQuery(store, logger.entry)
       IN result' =
            IF rows = {}
            THEN [op |-> "log", status |-> "InvalidRequestError",
                  tenant_id |-> logger.tenant_id, args |-> logger.args]
            ELSE [op |-> "log", status |-> "ok", tenant_id |-> logger.tenant_id,
                  args |-> logger.args, value |-> CHOOSE e \in rows : TRUE]
    /\ logger' = Idle
    /\ cleaned' = Idle
    /\ UNCHANGED <<store, now, next_id, reel_config, reader, cleaner, probe>>

\* the clock advances
Tick ==
    /\ now < MaxTime
    /\ now' = now + 1
    /\ result' = Idle /\ cleaned' = Idle
    /\ UNCHANGED <<store, next_id, reel_config, reader, cleaner, probe, logger>>

\* LogEntryRead.model_validate(entry): module of 1..100 characters, action
\* of 1..255, resource_type of at most 100; the other fields of a stored row
\* have the type the schema asks for
ReadValidates(e) ==
    /\ Len(e.module) >= 1 /\ Len(e.module) <= 100
    /\ Len(e.action) >= 1 /\ Len(e.action) <= 255
    /\ e.resource_type = NoneStr \/ Len(e.resource_type) <= 100

\* routers/logs.py get_log, calling ReelService.get: value is what the
\* service returned, http what the route answers
GetLog(log_id, tenant_id) ==
    /\ reader = Idle
    /\ LET got == ScalarOneOrNone(GetQuery(store, log_id, tenant_id))
       IN result' =
            IF got.status # "ok"
            THEN [op |-> "get", status |-> got.status, log_id |-> log_id,
                  tenant_id |-> tenant_id]
            ELSE IF got.value # NoneEntry /\ ~ReadValidates(got.value)
            THEN [op |-> "get", status |-> "ValidationError", log_id |-> log_id,
                  tenant_id |-> tenant_id, value |-> got.value]
            ELSE [op |-> "get", status |-> "ok", log_id |-> log_id, tenant_id |-> tenant_id,
                  value |-> got.value,
                  http |-> IF got.value = NoneEntry
                           THEN [status_code |-> 404, detail |-> "Log entry not found"]
                           ELSE [status_code |-> 200, body |-> got.value]]
    /\ cleaned' = Idle
    /\ UNCHANGED <<store, now, next_id, reel_config, reader, cleaner, probe, logger>>

\* a count that leaves the filter out
CountRowsUnfiltered(S, t, f) == Cardinality(Rows(S, t, NoneFilter))

\* select(func.count()).select_from(query.subquery()), then scalar() or 0
CountRows(S, t, f) == Cardinality(Rows(S, t, f))

\* ReelService.list up to its first statement, the count query
ListStart(tenant_id, f, page, page_size) ==
    /\ reader = Idle
    /\ IF QueryRaises(f)
       THEN /\ result' = [op |-> "list", status |-> "AttributeError",
                          tenant_id |-> tenant_id, filter |-> f]
            /\ reader' = reader
       ELSE /\ reader' = [op |-> "list", tenant_id |-> tenant_id, filter |-> f,
                          asked_page |-> page, asked_page_size |-> page_size,
                          page |-> ClampPage(page),
                          page_size |-> ClampPageSize(page_size, reel_config),
                          total |-> CountRows(store, tenant_id, f),
                          writes |-> 0, rows |-> 0]
            /\ result' = Idle
    /\ cleaned' = Idle
    /\ UNCHANGED <<store, now, next_id, reel_config, cleaner, probe, logger>>

\* what list returns once the page query gave `entries`
ListResult(r, entries) ==
    IF r.total > 0 /\ r.page_size = 0
    THEN [op |-> "list", status |-> "ZeroDivisionError", tenant_id |-> r.tenant_id,
          filter |-> r.filter, asked_page |-> r.asked_page,
          asked_page_size |-> r.asked_page_size, writes |-> r.writes, rows |-> r.rows]
    ELSE IF \E i \in DOMAIN entries : ~ReadValidates(entries[i])
    THEN [op |-> "list", status |-> "ValidationError", tenant_id |-> r.tenant_id,
          filter |-> r.filter, asked_page |-> r.asked_page,
          asked_page_size |-> r.asked_page_size, writes |-> r.writes, rows |-> r.rows]
    ELSE [op |-> "list", status |-> "ok", tenant_id |-> r.tenant_id, filter |-> r.filter,
          asked_page |-> r.asked_page, asked_page_size |-> r.asked_page_size,
          writes |-> r.writes, rows |-> r.rows,
          items |-> entries, total |-> r.total, page |-> r.page,
          page_size |-> r.page_size, pages |-> PageCount(r.total, r.page_size)]

\* ReelService.list from the page query on. PostgreSQL rejects a negative
\* OFFSET or LIMIT, and the error propagates.
ListFetch ==
    /\ reader.op = "list"
    /\ LET offset == PageOffset(reader.page, reader.page_size) IN
       IF offset < 0 \/ reader.page_size < 0
       THEN result' = [op |-> "list", status |-> "DBAPIError",
                       tenant_id |-> reader.tenant_id, filter |-> reader.filter,
                       asked_page |-> reader.asked_page,
                       asked_page_size |-> reader.asked_page_size, writes |-> reader.writes,
                       rows |-> reader.rows]
       ELSE \E order \in NewestFirst(Rows(store, reader.tenant_id, reader.filter)) :
               result' = ListResult(reader, OffsetLimit(order, offset, reader.page_size))
    /\ reader' = Idle
    /\ cleaned' = Idle
    /\ UNCHANGED <<store, now, next_id, reel_config, cleaner, probe, logger>>

\* a limit one above the cap
ExportLimitOff(cfg) == cfg.max_export_records + 1

\* .limit(reel_config.max_export_records)
ExportLimit(cfg) == cfg.max_export_records

\* ReelService.export up to the end of its statement: the query is built
\* (a filter the builder rejects raises here) and run, and the rows it gave
\* are held by the request
ExportStart(tenant_id, f, format, include_data) ==
    /\ reader = Idle
    /\ IF QueryRaises(f)
       THEN /\ result' = [op |-> "export", status |-> "AttributeError",
                          tenant_id |-> tenant_id, filter |-> f]
            /\ reader' = reader
       ELSE /\ \E order \in NewestFirst(Rows(store, tenant_id, f)) :
                  reader' = [op |-> "export", tenant_id |-> tenant_id, filter |-> f,
                             format |-> format, include_data |-> include_data,
                             entries |-> OffsetLimit(order, 0, ExportLimit(reel_config)),
                             writes |-> 0, rows |-> 0]
            /\ result' = Idle
    /\ cleaned' = Idle
    /\ UNCHANGED <<store, now, next_id, reel_config, cleaner, probe, logger>>

\* ReelService.export after its statement: the clock is read for the file
\* name, then the rows held are encoded and counted
ExportFinish ==
    /\ reader.op = "export"
    /\ LET entries == reader.entries
           format == reader.format
           include_data == reader.include_data
       IN result' =
            [op |-> "export", status |-> "ok", tenant_id |-> reader.tenant_id,
             filter |-> reader.filter, format |-> format, include_data |-> include_data,
             entries |-> entries,
             content |-> IF format = "json" THEN ExportJson(entries, include_data)
                         ELSE ExportCsv(entries, include_data),
             filename |-> <<"logs_", ToString(now), ".", format>>,
             record_count |-> Len(entries)]
    /\ reader' = Idle
    /\ cleaned' = Idle
    /\ UNCHANGED <<store, now, next_id, reel_config, cleaner, probe, logger>>

\* a weekday that counts from Sunday
WeekdayFromSunday(day) == (day + 1) % 7

\* a weekday taken with the wrong sign: the week then starts after today
WeekdayAhead(day) == 0 - (day % 7)

\* datetime.weekday(), Monday = 0; day 0 of the clock is a Monday
Weekday(day) == day % 7

\* select(col, func.count()).where(tenant_id == t).group_by(col) as a dict
GroupCount(R, col) ==
    [k \in {e[col] : e \in R} |-> Cardinality({e \in R : e[col] = k})]

\* .where(LogEntry.tenant_id == tenant_id)
TenantRows(S, t) == {e \in S : e.tenant_id = t}

\* ReelService.get_stats up to its first statement, the total count
StatsStart(tenant_id) ==
    /\ reader = Idle
    /\ reader' = [op |-> "stats", pc |-> "severity", tenant_id |-> tenant_id,
                  today_start |-> now, week_start |-> now - Weekday(now),
                  total_entries |-> Cardinality(TenantRows(store, tenant_id)),
                  entries_by_severity |-> <<>>, entries_by_module |-> <<>>,
                  entries_today |-> 0, counted_today |-> {},
                  writes |-> 0, rows |-> 0]
    /\ result' = Idle /\ cleaned' = Idle
    /\ UNCHANGED <<store, now, next_id, reel_config, cleaner, probe, logger>>

StatsSeverity ==
    /\ reader.op = "stats" /\ reader.pc = "severity"
    /\ reader' = [reader EXCEPT !.pc = "module",
                     !.entries_by_severity =
                        GroupCount(TenantRows(store, reader.tenant_id), "severity")]
    /\ result' = Idle /\ cleaned' = Idle
    /\ UNCHANGED <<store, now, next_id, reel_config, cleaner, probe, logger>>

StatsModule ==
    /\ reader.op = "stats" /\ reader.pc = "module"
    /\ reader' = [reader EXCEPT !.pc = "today",
                     !.entries_by_module =
                        GroupCount(TenantRows(store, reader.tenant_id), "module")]
    /\ result' = Idle /\ cleaned' = Idle
    /\ UNCHANGED <<store, now, next_id, reel_config, cleaner, probe, logger>>

\* the today count of get_stats; the rows it counted are noted for the
\* request, to tell at the week count which of them were deleted since
StatsToday ==
    /\ reader.op = "stats" /\ reader.pc = "today"
    /\ LET counted == {e \in TenantRows(store, reader.tenant_id) :
                          e.created_at >= reader.today_start}
       IN reader' = [reader EXCEPT !.pc = "week",
                        !.entries_today = Cardinality(counted),
                        !.counted_today = counted]
    /\ result' = Idle /\ cleaned' = Idle
    /\ UNCHANGED <<store, now, next_id, reel_config, cleaner, probe, logger>>

StatsWeek ==
    /\ reader.op = "stats" /\ reader.pc = "week"
    /\ result' = [op |-> "stats", status |-> "ok", tenant_id |-> reader.tenant_id,
                  writes |-> reader.writes, rows |-> reader.rows,
                  today_start |-> reader.today_start, week_start |-> reader.week_start,
                  total_entries |-> reader.total_entries,
                  entries_by_severity |-> reader.entries_by_severity,
                  entries_by_module |-> reader.entries_by_module,
                  entries_today |-> reader.entries_today,
                  deleted_since_today |-> Cardinality(reader.counted_today \ store),
                  entries_this_week |->
                     Cardinality({e \in TenantRows(store, reader.tenant_id) :
                                     e.created_at >= reader.week_start})]
    /\ reader' = Idle
    /\ cleaned' = Idle
    /\ UNCHANGED <<store, now, next_id, reel_config, cleaner, probe, logger>>

\* a delete that also takes the entries created at the cutoff
ExpiredOrAt(S, cutoff) == {e \in S : e.created_at <= cutoff}

\* delete(LogEntry).where(LogEntry.created_at < cutoff)
Expired(S, cutoff) == {e \in S : e.created_at < cutoff}

\* a check that lets retention_days = 0 through
RetentionDisabledBelowZero(cfg) == cfg.retention_days < 0

\* if reel_config.retention_days <= 0: return 0
RetentionDisabled(cfg) == cfg.retention_days <= 0

\* ReelService.cleanup_old_entries of caller c up to its first statement,
\* the count query
CleanupStart(c) ==
    /\ cleaner[c] = Idle
    /\ IF RetentionDisabled(reel_config)
       THEN /\ cleaned' = [op |-> "cleanup", by |-> c, value |-> 0, deleted |-> {}]
            /\ cleaner' = cleaner
       ELSE LET cutoff == now - reel_config.retention_days
                count == Cardinality(Expired(store, cutoff))
            IN IF count > 0
               THEN /\ cleaner' = [cleaner EXCEPT ![c] =
                                      [op |-> "cleanup", pc |-> "delete", cutoff |-> cutoff,
                                       count |-> count]]
                    /\ cleaned' = Idle
               ELSE /\ cleaned' = [op |-> "cleanup", by |-> c, value |-> 0, deleted |-> {},
                                   cutoff |-> cutoff]
                    /\ cleaner' = cleaner
    /\ result' = Idle
    /\ UNCHANGED <<store, now, next_id, reel_config, reader, probe, logger>>

\* the rows an uncommitted delete statement of another caller holds locked
LockedByOthers(c) ==
    UNION {cleaner[d].marked :
             d \in {x \in Cleaners \ {c} : cleaner[x].op = "cleanup" /\ cleaner[x].pc = "commit"}}

\* the delete statement of caller c: it takes the rows that are expired now;
\* while another caller's uncommitted delete holds one of them it waits
CleanupDelete(c) ==
    /\ cleaner[c].op = "cleanup" /\ cleaner[c].pc = "delete"
    /\ LET gone == Expired(store, cleaner[c].cutoff)
       IN /\ gone \cap LockedByOthers(c) = {}
          /\ cleaner' = [cleaner EXCEPT ![c] =
                            [op |-> "cleanup", pc |-> "commit", cutoff |-> cleaner[c].cutoff,
                             count |-> cleaner[c].count, marked |-> gone]]
    /\ result' = Idle /\ cleaned' = Idle
    /\ UNCHANGED <<store, now, next_id, reel_config, reader, logger, probe>>

\* the commit of caller c: its delete takes effect for the other requests,
\* and the call returns the count of its first query
CleanupCommit(c) ==
    /\ cleaner[c].op = "cleanup" /\ cleaner[c].pc = "commit"
    /\ LET gone == cleaner[c].marked
       IN /\ store' = store \ gone
          /\ cleaned' = [op |-> "cleanup", by |-> c, value |-> cleaner[c].count,
                         deleted |-> gone, cutoff |-> cleaner[c].cutoff]
          /\ reader' = IF gone = {} THEN reader ELSE NoteWrite(reader, Cardinality(gone))
    /\ cleaner' = [cleaner EXCEPT ![c] = Idle]
    /\ result' = Idle
    /\ UNCHANGED <<now, next_id, reel_config, logger, probe>>

\* the requests made while writes go on
LogCalls ==
    { <<"t1", CHOOSE a \in LogArgs : a.severity = "unset">>,
      <<"t2", CHOOSE a \in LogArgs : a.severity = "ERROR">> }

\* the filters of the requests that run next to writes
Filters == {NoneFilter, [NoFilter EXCEPT !.module = S_mentor]}

Pages == 1..2

PageSizes == 1..1

Init ==
    /\ store = {} /\ now = 0 /\ next_id = 1
    /\ reel_config \in {[DefaultConfig EXCEPT !.retention_days = d] : d \in {0, 1}}
    /\ reader = Idle /\ result = Idle /\ cleaner = NoCleanup /\ cleaned = Idle
    /\ logger = Idle
    /\ probe = [stage |-> "none"]

Next ==
    \/ \E c \in LogCalls : Log(c[1], c[2])
    \/ LogRefresh
    \/ Tick
    \/ \E i \in 1..(MaxEntries + 1), t \in Tenants : GetLog(i, t)
    \/ \E t \in Tenants, f \in Filters, pg \in Pages, ps \in PageSizes : ListStart(t, f, pg, ps)
    \/ ListFetch
    \/ \E t \in Tenants, f \in Filters : ExportStart(t, f, "json", TRUE)
    \/ ExportFinish
    \/ StatsStart("t1")
    \/ StatsSeverity
    \/ StatsModule
    \/ StatsToday
    \/ StatsWeek
    \/ CleanupStart(1)
    \/ CleanupDelete(1)
    \/ CleanupCommit(1)

Spec == Init /\ [][Next]_vars

-----------------------------------------------------------------------------
(* SpecQuery: list and export over a store that no request changes *)

\* the largest store queried, and the last day an entry of it was created
MaxStored == 3
MaxStoredTime == 1

\* the stores that n log calls leave: ids in order of insertion, created_at
\* never decreasing, several entries on one day
StoreOf(calls) ==
    {NewEntry(i, calls[i][3], calls[i][1], calls[i][2]) : i \in DOMAIN calls}

QueryStores ==
    {StoreOf(calls) :
        calls \in {c \in UNION {[1..n -> Tenants \X LogArgs \X (0..MaxStoredTime)] :
                                     n \in 0..MaxStored} :
                      \A i, j \in DOMAIN c : i < j => c[i][3] <= c[j][3]}}

\* log(module="", ...): log takes any str, and the column holds it
UnvalidatedArgs == [(CHOOSE a \in LogArgs : a.severity = "unset") EXCEPT !.module = S_empty]

\* stores that hold an entry LogEntryRead does not accept
UnvalidatedStores ==
    {StoreOf(<< <<"t1", UnvalidatedArgs, 0>> >>),
     StoreOf(<< <<"t1", CHOOSE a \in LogArgs : a.severity = "ERROR", 0>>,
                <<"t1", UnvalidatedArgs, MaxStoredTime>> >>)}

QueryFilters ==
    {NoneFilter, [NoFilter EXCEPT !.min_severity = "WARNING"], [NoFilter EXCEPT !.search = S_x]}

QueryPages == 0..(MaxStored + 1)

QueryPageSizes == -1..(DefaultConfig.max_page_size + 1)

InitQuery ==
    /\ store \in QueryStores \cup UnvalidatedStores
    /\ now = MaxStoredTime
    /\ next_id = Cardinality(store) + 1
    /\ reel_config \in {DefaultConfig,
                         [DefaultConfig EXCEPT !.max_page_size = 1, !.max_export_records = 1]}
    /\ reader = Idle /\ result = Idle /\ cleaner = NoCleanup /\ cleaned = Idle
    /\ logger = Idle
    /\ probe = [stage |-> "none"]

\* one request in each behaviour: the store stays as it is, so a second
\* request would start from the same state
NextQuery ==
    \/ \E f \in QueryFilters, pg \in QueryPages, ps \in QueryPageSizes :
          result = Idle /\ ListStart("t1", f, pg, ps)
    \/ ListFetch
    \/ \E f \in QueryFilters, fmt \in {"csv", "json"}, d \in BOOLEAN :
          result = Idle /\ ExportStart("t1", f, fmt, d)
    \/ ExportFinish
    \/ \E i \in 1..(MaxStored + 1) : result = Idle /\ GetLog(i, "t1")
    \/ result = Idle /\ StatsStart("t1")
    \/ StatsSeverity
    \/ StatsModule
    \/ StatsToday
    \/ StatsWeek

SpecQuery == InitQuery /\ [][NextQuery]_vars

-----------------------------------------------------------------------------
(* Claims about the query service *)

\* the entries of tenant t that filter f selects, by the reading of the
\* specification: every given condition holds
Matching(S, t, f) ==
    {e \in S : e.tenant_id = t /\
                (f = NoneFilter \/
                 \A fld \in FilterFields : f[fld] = NoFilter[fld] \/ Satisfies(fld, e, f))}

\* ceil(n / p) for p >= 1
Ceil(n, p) == CHOOSE k \in 0..n : k * p >= n /\ (k = 0 \/ (k - 1) * p < n)

\* C1: whatever entries the log and cleanup calls of two tenants have left
\* in the store, no read request of tenant A returns, encodes or counts an
\* entry of another tenant, whatever the filter.
C1_TenantIsolation ==
    /\ (result.op = "get" /\ result.status = "ok" /\ result.value # NoneEntry) =>
          result.value.tenant_id = result.tenant_id
    /\ (result.op = "list" /\ result.status = "ok") =>
          \A i \in DOMAIN result.items : result.items[i].tenant_id = result.tenant_id
    /\ (result.op = "export" /\ result.status = "ok") =>
          /\ \A i \in DOMAIN result.entries :
                result.entries[i].tenant_id = result.tenant_id
          /\ result.format = "csv" =>
                LET rows == CsvParse(result.content)
                IN \A i \in 2..Len(rows) : rows[i][9] = StrUUID(result.tenant_id)
          /\ result.format = "json" =>
                \A i \in DOMAIN result.content.logs :
                   result.content.logs[i].tenant_id = StrUUID(result.tenant_id)
    /\ (result.op = "stats" /\ result.status = "ok") =>
          LET mine == {e \in store : e.tenant_id = result.tenant_id}
          IN /\ result.total_entries = Cardinality(mine)
             /\ DOMAIN result.entries_by_module = {e.module : e \in mine}
             /\ \A m \in DOMAIN result.entries_by_module :
                   result.entries_by_module[m] = Cardinality({e \in mine : e.module = m})
             /\ DOMAIN result.entries_by_severity = {e.severity : e \in mine}
             /\ \A v \in DOMAIN result.entries_by_severity :
                   result.entries_by_severity[v] = Cardinality({e \in mine : e.severity = v})
             /\ result.entries_today <= Cardinality(mine)
             /\ result.entries_this_week <= Cardinality(mine)

C1_Witness ==
    /\ result.op = "list" /\ result.status = "ok"
    /\ result.items # <<>>
    /\ \E e \in store : e.tenant_id # result.tenant_id

\* C2: get returns the entry iff an entry with that id exists under the given
\* tenant; otherwise, whether the id is unknown or belongs to another
\* tenant, the service returns None and the API answers 404 with one and the
\* same detail.
C2_GetScoped ==
    result.op = "get" =>
        /\ result.status \in {"ok", "ValidationError"}
        /\ (result.value # NoneEntry) <=>
              (\E e \in store : e.id = result.log_id /\ e.tenant_id = result.tenant_id)
        /\ result.value # NoneEntry =>
              /\ result.value \in store
              /\ result.value.id = result.log_id
              /\ result.status = "ok" =>
                    result.http = [status_code |-> 200, body |-> result.value]
        /\ result.value = NoneEntry =>
              /\ result.status = "ok"
              /\ result.http = [status_code |-> 404, detail |-> "Log entry not found"]

C2_Witness ==
    /\ result.op = "get"
    /\ \E e \in store : e.id = result.log_id /\ e.tenant_id # result.tenant_id
    /\ result.value = NoneEntry
    /\ result.http.status_code = 404

\* the created_at-descending orderings of a set of entries, spelt out
SortedDesc(M) ==
    {o \in [1..Cardinality(M) -> M] :
        /\ \A i, j \in DOMAIN o : i # j => o[i] # o[j]
        /\ \A i, j \in DOMAIN o : i < j => o[i].created_at >= o[j].created_at}

\* C3: with N matching entries and page size P >= 1, list reports
\* pages = ceil(N / P), 0 when N = 0, and the lengths of pages 1..pages sum
\* to N (stated for the filters the query builder accepts).
C3_PageCount ==
    (result.op = "list" /\ result.status = "ok" /\ result.page_size >= 1) =>
        LET N == Cardinality(Matching(store, result.tenant_id, result.filter))
            P == result.page_size
            order == CHOOSE o \in NewestFirst(Rows(store, result.tenant_id, result.filter)) : TRUE
            PageLen(k) == Len(OffsetLimit(order, PageOffset(k, P), P))
            Total[k \in 0..result.pages] == IF k = 0 THEN 0 ELSE Total[k - 1] + PageLen(k)
        IN /\ result.pages = (IF N = 0 THEN 0 ELSE Ceil(N, P))
           /\ Len(result.items) = PageLen(result.page)
           /\ Total[result.pages] = N

C3_Witness ==
    /\ result.op = "list" /\ result.status = "ok"
    /\ result.total = 3 /\ result.page_size = 2 /\ result.pages = 2
    /\ result.page = 2 /\ Len(result.items) = 1

\* C7: list returns the matching entries at positions (page-1)*page_size+1
\* .. page*page_size of a created_at-descending ordering of all matching
\* entries, and total is the number of matching entries whatever page and
\* page_size are (stated for the filters the query builder accepts).
C7_ListOrder ==
    (result.op = "list" /\ result.status = "ok") =>
        LET M == Matching(store, result.tenant_id, result.filter)
            N == Cardinality(M)
            first == (result.page - 1) * result.page_size + 1
            last == Min(result.page * result.page_size, N)
        IN /\ result.total = N
           /\ \E o \in SortedDesc(M) :
                 result.items = [i \in 1..Max(last - first + 1, 0) |-> o[first + i - 1]]

C7_Witness ==
    /\ result.op = "list" /\ result.status = "ok"
    /\ result.page = 2 /\ result.page_size = 1 /\ result.total = 2
    /\ Len(result.items) = 1
    /\ \E e \in Matching(store, result.tenant_id, result.filter) :
          e.created_at > result.items[1].created_at
    /\ \E e \in store : e.tenant_id = result.tenant_id /\
                           e \notin Matching(store, result.tenant_id, result.filter)

\* C8: list accepts any integer page and page_size: a page_size above
\* max_page_size counts as max_page_size, a page below 1 counts as page 1,
\* and the call returns a result with at most page_size items (stated for
\* the filters the query builder accepts, and a page_size the database
\* accepts as LIMIT).
C8_AnyPageAndSize ==
    (result.op = "list" /\ ~QueryRaises(result.filter) /\ result.asked_page_size >= 0) =>
        /\ result.status = "ok"
        /\ result.page_size <= reel_config.max_page_size
        /\ result.asked_page_size > reel_config.max_page_size =>
              result.page_size = reel_config.max_page_size
        /\ result.page >= 1
        /\ result.asked_page < 1 => result.page = 1
        /\ Len(result.items) <= result.page_size

\* C9: export returns record_count = min(M, max_export_records) for M
\* matching entries, the entries encoded are that many, they are the newest
\* ones in newest-first order, and no error is signalled when M exceeds the
\* cap (stated for the filters the query builder accepts).
C9_ExportCap ==
    (result.op = "export" /\ ~QueryRaises(result.filter)) =>
        LET M == Matching(store, result.tenant_id, result.filter)
            cap == reel_config.max_export_records
            es == result.entries
        IN /\ result.status = "ok"
           /\ result.record_count = Min(Cardinality(M), cap)
           /\ Len(es) = result.record_count
           /\ \A i, j \in DOMAIN es : i < j => es[i] # es[j] /\
                                                 es[i].created_at >= es[j].created_at
           /\ \A i \in DOMAIN es : es[i] \in M
           /\ \A e \in M : (\A i \in DOMAIN es : es[i] # e) =>
                 \A i \in DOMAIN es : es[i].created_at >= e.created_at
           /\ result.format = "csv" =>
                 Len(CsvParse(result.content)) = result.record_count + 1
           /\ result.format = "json" =>
                 /\ Len(result.content.logs) = result.record_count
                 /\ result.content.count = result.record_count

C9_Witness ==
    /\ result.op = "export" /\ result.status = "ok"
    /\ Cardinality(Matching(store, result.tenant_id, result.filter)) >
          reel_config.max_export_records
    /\ result.record_count = reel_config.max_export_records
    /\ result.record_count >= 1
    /\ \E e \in Matching(store, result.tenant_id, result.filter) :
          e.created_at < result.entries[Len(result.entries)].created_at

-----------------------------------------------------------------------------
(* SpecEncode: the two export encoders applied to lists of entries *)

ExportJsonCall ==
    /\ probe.stage = "input"
    /\ probe' = [probe EXCEPT !.stage = "json",
                               !.out = ExportJson(probe.entries, probe.include_data)]
    /\ UNCHANGED <<store, now, next_id, reel_config, reader, result, cleaner, cleaned, logger>>

InitEncode == InitCsv

NextEncode == ExportCsvCall \/ ExportJsonCall

SpecEncode == InitEncode /\ [][NextEncode]_vars

\* C11: in a JSON export of any list of entries, with include_data true or
\* false, count equals the length of logs, which equals the number of
\* entries handed to the encoder, and logs[i] is the i-th entry.
C11_JsonCount ==
    probe.stage = "json" =>
        /\ probe.out.count = Len(probe.out.logs)
        /\ Len(probe.out.logs) = Len(probe.entries)
        /\ \A i \in 1..Len(probe.entries) :
              /\ probe.out.logs[i].id = StrId(probe.entries[i].id)
              /\ probe.out.logs[i].module = probe.entries[i].module
              /\ probe.out.logs[i].action = probe.entries[i].action

C11_Witness ==
    /\ probe.stage = "json"
    /\ Len(probe.entries) = 2
    /\ probe.entries[1].id = 3 /\ probe.entries[2].id = 2
    /\ probe.out.count = 2
    /\ probe.out.logs[1].id = StrId(3)

\* the exported columns that come from nullable columns of the entry, with
\* their position in a CSV row
OptionalStrFields ==
    { <<"actor_email", 7>>, <<"actor_name", 8>>, <<"resource_type", 11>>, <<"ip_address", 13>> }

OptionalUUIDFields == { <<"actor_id", 6>>, <<"client_id", 10>>, <<"resource_id", 12>> }

\* C12: an optional field is the empty string in CSV and null in JSON exactly
\* when the entry lacks it, and has its value otherwise; data is exported
\* only when include_data is true, as the JSON text of the entry's data in
\* CSV and as the data itself in JSON.
C12_OptionalFields ==
    /\ probe.stage = "done" =>
          LET rows == CsvParse(probe.out) IN
          \A i \in 1..Len(probe.entries) :
             LET e == probe.entries[i]
                 row == rows[i + 1]
             IN /\ \A f \in OptionalStrFields :
                      row[f[2]] = (IF e[f[1]] = NoneStr THEN <<>> ELSE e[f[1]])
                /\ \A f \in OptionalUUIDFields :
                      row[f[2]] = (IF e[f[1]] = NoneUUID THEN <<>> ELSE <<e[f[1]]>>)
                /\ Len(row) = 14 <=> probe.include_data
                /\ probe.include_data =>
                      row[14] = (IF e.data = NoneData THEN <<>> ELSE JsonDumps(e.data))
    /\ probe.stage = "json" =>
          \A i \in 1..Len(probe.entries) :
             LET e == probe.entries[i]
                 item == probe.out.logs[i]
             IN /\ \A f \in OptionalStrFields : item[f[1]] = e[f[1]]
                /\ \A f \in OptionalUUIDFields :
                      item[f[1]] = (IF e[f[1]] = NoneUUID THEN NoneStr ELSE <<e[f[1]]>>)
                /\ ("data" \in DOMAIN item) <=> probe.include_data
                /\ probe.include_data => item.data = e.data

-----------------------------------------------------------------------------
(* SpecCleanup: cleanup_old_entries of two callers, against log calls and  *)
(* the clock, from stores that hold entries of several days                 *)

\* the stores that log calls of both tenants leave
CleanupStores ==
    {StoreOf(calls) :
        calls \in {c \in UNION {[1..n -> {<<l[1], l[2], t>> : l \in LogCalls,
                                                           t \in 0..MaxStoredTime}] :
                                     n \in 0..MaxStored} :
                      \A i, j \in DOMAIN c : i < j => c[i][3] <= c[j][3]}}

\* settings of REEL_RETENTION_DAYS
RetentionDays == {0 - 1, 0, 1}

InitCleanup ==
    /\ store \in CleanupStores
    /\ now = MaxStoredTime
    /\ next_id = Cardinality(store) + 1
    /\ reel_config \in {[DefaultConfig EXCEPT !.retention_days = d] : d \in RetentionDays}
    /\ reader = Idle /\ result = Idle /\ cleaner = NoCleanup /\ cleaned = Idle
    /\ logger = Idle
    /\ probe = [stage |-> "none"]

NextCleanup ==
    \/ \E c \in LogCalls : Log(c[1], c[2])
    \/ LogRefresh
    \/ Tick
    \/ \E c \in Cleaners : CleanupStart(c)
    \/ \E c \in Cleaners : CleanupDelete(c)
    \/ \E c \in Cleaners : CleanupCommit(c)

SpecCleanup == InitCleanup /\ [][NextCleanup]_vars

\* C13: while retention_days <= 0 no step removes an entry, no cleanup call
\* gets as far as its queries, and every cleanup call returns 0 and leaves
\* the store as it was, however old the entries are.
C13_RetentionDisabled ==
    [][reel_config.retention_days <= 0 =>
          /\ store \subseteq store'
          /\ cleaner' = NoCleanup
          /\ cleaned'.op = "cleanup" => (cleaned'.value = 0 /\ store' = store)]_vars

C13_Witness ==
    /\ reel_config.retention_days <= 0
    /\ cleaned.op = "cleanup" /\ cleaned.value = 0
    /\ now = MaxTime
    /\ \E e \in store : e.created_at = 0

\* C14: with retention_days > 0, the step that completes a cleanup call
\* leaves exactly the entries, of whatever tenant, created at or after
\* cutoff = (now at the call) - retention_days, each as it was.
C14_CleanupRemovesOld ==
    [][(reel_config.retention_days > 0 /\ cleaned'.op = "cleanup") =>
          store' = {e \in store : e.created_at >= cleaned'.cutoff}]_vars

C14_Witness ==
    /\ reel_config.retention_days > 0
    /\ cleaned.op = "cleanup"
    /\ \E d1, d2 \in cleaned.deleted : d1.tenant_id = "t1" /\ d2.tenant_id = "t2"
    /\ \E e \in store : e.created_at = cleaned.cutoff

\* C15: the value cleanup_old_entries returns is the number of entries this
\* call deleted, also when other cleanup or log calls run between its count
\* query and its delete statement.
C15_ReturnIsDeleted ==
    cleaned.op = "cleanup" => cleaned.value = Cardinality(cleaned.deleted)

-----------------------------------------------------------------------------
(* Claims about the life of an entry *)

\* C16: entries are append-only: an entry that stays in the store keeps all
\* its fields; the store grows only in a log call, by exactly one entry, and
\* shrinks only in the delete of cleanup_old_entries; get, list, get_stats
\* and export leave it as it is.
C16_AppendOnly ==
    [][/\ \A e \in store, e2 \in store' : e.id = e2.id => e = e2
       /\ (logger = Idle /\ logger'.op = "log") =>
             (store \subseteq store' /\ Cardinality(store') = Cardinality(store) + 1)
       /\ ~(store' \subseteq store) => (logger = Idle /\ logger'.op = "log")
       /\ ~(store \subseteq store') => cleaned'.op = "cleanup"
       /\ (\/ result'.op \in {"get", "list", "export", "stats", "log"}
           \/ reader'.op # reader.op
           \/ (reader.op = "stats" /\ reader'.op = "stats" /\ reader'.pc # reader.pc))
             => store' = store]_vars

C16_Witness ==
    /\ result.op = "export" /\ result.status = "ok"
    /\ Cardinality(store) = 2
    /\ \E e \in store : e.created_at < now
    /\ \E e \in store : e.created_at = now

\* C17: log inserts exactly one entry with the given fields, severity INFO
\* when none is given, an id no stored entry has and created_at the time of
\* insertion; it returns the stored entry, and get(returned id, tenant_id)
\* then returns that entry.
C17_LogInserts ==
    [][/\ (logger = Idle /\ logger'.op = "log") =>
             LET e == logger'.entry
                 a == logger'.args
             IN /\ e \notin store /\ store' = store \cup {e}
                /\ \A x \in store : x.id # e.id
                /\ e.tenant_id = logger'.tenant_id
                /\ \A f \in DOMAIN a \ {"severity"} : e[f] = a[f]
                /\ e.severity = (IF a.severity = "unset" THEN "INFO" ELSE a.severity)
                /\ e.created_at = now
                /\ ScalarOneOrNone(GetQuery(store', e.id, logger'.tenant_id)) =
                      [status |-> "ok", value |-> e]
       /\ (logger.op = "log" /\ result'.op = "log" /\ result'.status = "ok") =>
             /\ result'.value = logger.entry
             /\ result'.value \in store'
             /\ ScalarOneOrNone(GetQuery(store', result'.value.id, result'.tenant_id)) =
                   [status |-> "ok", value |-> result'.value]]_vars

C17_Witness ==
    /\ result.op = "log" /\ result.status = "ok"
    /\ result.args.severity = "unset" /\ result.value.severity = "INFO"
    /\ result.value \in store
    /\ Cardinality(store) = 2
    /\ now > 0 /\ result.value.created_at = now

-----------------------------------------------------------------------------
(* Claims about reads that run while writes commit *)

AbsDiff(a, b) == IF a >= b THEN a - b ELSE b - a

\* the matching rows the page fetch of a finished list call saw: no step
\* lies between the fetch and the state that holds its result
SeenByFetch == Cardinality(Matching(store, result.tenant_id, result.filter))

\* C18 as stated: when one log or one cleanup call commits between the count
\* query and the page fetch of list, total differs from the number of
\* matching rows the page fetch saw by at most one.
C18_StaleByOne ==
    (result.op = "list" /\ result.status = "ok" /\ result.writes = 1) =>
        AbsDiff(result.total, SeenByFetch) <= 1

\* C18, amended: total and items come from the same tenant and filter, and
\* total differs from the number of matching rows the page fetch saw by at
\* most the number of rows that the writes committed in between inserted or
\* deleted: at most one for a log call, any number for a cleanup call.
C18_StaleByRowsWritten ==
    (result.op = "list" /\ result.status = "ok") =>
        /\ AbsDiff(result.total, SeenByFetch) <= result.rows
        /\ result.writes = 0 => result.total = SeenByFetch
        /\ \A i \in DOMAIN result.items :
              result.items[i] \in Matching(store, result.tenant_id, result.filter)

C18_Witness ==
    /\ result.op = "list" /\ result.status = "ok"
    /\ result.writes = 1 /\ result.rows = 2
    /\ result.total = 2 /\ SeenByFetch = 0
    /\ cleaner[1] = Idle


\* C19: while retention is disabled (retention_days 0, the default), every
\* entry that log has returned is still returned by get with its id and
\* tenant, whatever calls have run since.
C19_NeverDestroyed ==
    reel_config.retention_days <= 0 =>
        \A i \in 1..(next_id - 1) :
           \E t \in Tenants :
              LET got == ScalarOneOrNone(GetQuery(store, i, t))
              IN /\ got.status = "ok"
                 /\ got.value # NoneEntry
                 /\ got.value.id = i /\ got.value.tenant_id = t
                 /\ got.value.created_at <= now

C19_Witness ==
    /\ reel_config.retention_days <= 0
    /\ cleaned.op = "cleanup"
    /\ next_id = 3 /\ Cardinality(store) = 2
    /\ now = MaxTime
    /\ \E e \in store : e.created_at = 0

-----------------------------------------------------------------------------
(* SpecStats: get_stats on stores whose entries span two weeks *)

\* days of entries: a Sunday, the Monday after it and the Tuesday after it
StatsDays == {6, 7, 8}

\* days of the call: that Tuesday, and the Monday of the week after
StatsNow == {8, 14}

StatsStores ==
    {StoreOf(calls) :
        calls \in {c \in UNION {[1..n -> Tenants \X LogArgs \X StatsDays] : n \in 0..MaxStored} :
                      \A i, j \in DOMAIN c : i < j => c[i][3] <= c[j][3]}}

InitStats ==
    /\ store \in StatsStores
    /\ now \in StatsNow
    /\ next_id = Cardinality(store) + 1
    /\ reel_config = DefaultConfig
    /\ reader = Idle /\ result = Idle /\ cleaner = NoCleanup /\ cleaned = Idle
    /\ logger = Idle
    /\ probe = [stage |-> "none"]

\* one request in each behaviour, on a store that stays as it is
NextStats ==
    \/ \E t \in Tenants : result = Idle /\ StatsStart(t)
    \/ StatsSeverity
    \/ StatsModule
    \/ StatsToday
    \/ StatsWeek

SpecStats == InitStats /\ [][NextStats]_vars

RECURSIVE SumCounts(_)
SumCounts(f) ==
    IF DOMAIN f = {} THEN 0
    ELSE LET k == CHOOSE x \in DOMAIN f : TRUE
         IN f[k] + SumCounts([x \in DOMAIN f \ {k} |-> f[x]])

\* the Monday of the week of day d
MondayOf(d) == CHOOSE m \in (d - 6)..d : m % 7 = 0

\* C20: on a store that does not change, get_stats returns total_entries =
\* the number of the tenant's entries; entries_by_severity and
\* entries_by_module with the count of each key that occurs, no key of
\* count 0 and counts that sum to total_entries; entries_today = the
\* tenant's entries created on or after the current day; entries_this_week
\* = those created on or after the Monday of the current week.
C20_Stats ==
    (result.op = "stats" /\ result.status = "ok" /\ result.writes = 0) =>
        LET T == {e \in store : e.tenant_id = result.tenant_id} IN
        /\ result.total_entries = Cardinality(T)
        /\ SumCounts(result.entries_by_severity) = result.total_entries
        /\ SumCounts(result.entries_by_module) = result.total_entries
        /\ \A k \in DOMAIN result.entries_by_severity :
              /\ result.entries_by_severity[k] > 0
              /\ result.entries_by_severity[k] = Cardinality({e \in T : e.severity = k})
        /\ \A k \in DOMAIN result.entries_by_module :
              /\ result.entries_by_module[k] > 0
              /\ result.entries_by_module[k] = Cardinality({e \in T : e.module = k})
        /\ result.entries_today = Cardinality({e \in T : e.created_at >= now})
        /\ result.entries_this_week = Cardinality({e \in T : e.created_at >= MondayOf(now)})

C20_Witness ==
    /\ result.op = "stats" /\ result.status = "ok"
    /\ now = 8
    /\ result.total_entries = 3
    /\ result.entries_this_week = 2
    /\ result.entries_today = 1
    /\ Cardinality(DOMAIN result.entries_by_severity) = 2

-----------------------------------------------------------------------------
(* SpecPages: a caller reads pages 1..pages of list, one call per page, on *)
(* a store that stays as it is                                              *)

\* LogFilter as list_logs builds it from its query parameters
PagerFilters ==
    {NoFilter, [NoFilter EXCEPT !.severity = "ERROR"], [NoFilter EXCEPT !.module = S_guardian]}

PagerPageSizes == 1..DefaultConfig.max_page_size

InitPages ==
    /\ store \in CleanupStores
    /\ now = MaxStoredTime
    /\ next_id = Cardinality(store) + 1
    /\ reel_config = DefaultConfig
    /\ reader = Idle /\ result = Idle /\ cleaner = NoCleanup /\ cleaned = Idle
    /\ logger = Idle
    /\ probe \in {[stage |-> "paging", tenant_id |-> t, filter |-> f, page_size |-> ps,
                   got |-> <<>>, pages |-> 0] :
                     t \in Tenants, f \in PagerFilters, ps \in PagerPageSizes}

\* the caller asks for the page after the ones it has
PagerAsks ==
    /\ probe.stage = "paging"
    /\ result = Idle
    /\ Len(probe.got) = 0 \/ Len(probe.got) < probe.pages
    /\ ListStart(probe.tenant_id, probe.filter, Len(probe.got) + 1, probe.page_size)

\* the caller keeps the items of the page it was given
PagerKeeps ==
    /\ probe.stage = "paging"
    /\ result.op = "list" /\ result.status = "ok"
    /\ probe' = [probe EXCEPT !.got = Append(@, result.items), !.pages = result.pages]
    /\ result' = Idle
    /\ UNCHANGED <<store, now, next_id, reel_config, reader, cleaner, cleaned, logger>>

NextPages == PagerAsks \/ ListFetch \/ PagerKeeps

SpecPages == InitPages /\ [][NextPages]_vars

\* the number of places on the pages read at which entry e appears
TimesOnPages(got, e) ==
    Cardinality({p \in {<<k, i>> : k \in 1..Len(got), i \in 1..DefaultConfig.max_page_size} :
                    p[2] <= Len(got[p[1]]) /\ got[p[1]][p[2]] = e})

\* C21: over an unchanged store, for any page_size, every entry matching
\* tenant and filter appears on exactly one of the pages 1..pages of list,
\* also when several matching entries share the same created_at.
C21_EachEntryOnOnePage ==
    (probe.stage = "paging" /\ Len(probe.got) >= 1 /\ Len(probe.got) = probe.pages) =>
        \A e \in Matching(store, probe.tenant_id, probe.filter) :
            TimesOnPages(probe.got, e) = 1

-----------------------------------------------------------------------------
(* get_stats next to calls that write, checked under Spec                   *)

\* C22 as stated: in every result of get_stats, entries_today <=
\* entries_this_week, whatever commits between the queries of get_stats.
C22_TodayWithinWeek ==
    (result.op = "stats" /\ result.status = "ok") =>
        result.entries_today <= result.entries_this_week

\* C22: in every result of get_stats, entries_today exceeds
\* entries_this_week by at most the number of entries that the today count
\* included and that cleanup_old_entries deleted before the week count; so
\* entries_today <= entries_this_week whenever no such delete commits between
\* the two counts, whatever log calls commit between the queries and
\* whatever was deleted before the today count.
C22_TodayWithinWeekUnlessDeleted ==
    (result.op = "stats" /\ result.status = "ok") =>
        /\ result.entries_today <= result.entries_this_week + result.deleted_since_today
        /\ result.deleted_since_today = 0 =>
              result.entries_today <= result.entries_this_week

\* an entry was deleted before the today count, and a log call committed
\* between the today count and the week count: the week count saw its entry
C22_Witness ==
    /\ result.op = "stats" /\ result.status = "ok"
    /\ Cardinality(store) < next_id - 1
    /\ result.writes >= 1
    /\ result.deleted_since_today = 0
    /\ result.total_entries = 0
    /\ result.entries_today = 0
    /\ result.entries_this_week = 1

====
